---- MODULE Spec2Model ----
(***************************************************************************)
(* Model of the document-ingestion / retrieval program:                    *)
(*   mcp_server.py  MCPServer          content store, dedup, chunker       *)
(*   vector_utils.py VectorIndex       the content store's vector index    *)
(*   mcp_ollama.py  MCPWrapperOllama   retrieval index and query policy    *)
(*   app.py                            startup refresh, /upload, /send     *)
(*                                                                         *)
(* Text is a sequence of characters; a character is a one-element string   *)
(* (or an atom standing for a run of non-blank characters).  Numbers that  *)
(* are similarity scores or thresholds are in tenths (7 is 0.7).           *)
(***************************************************************************)
EXTENDS Integers, Sequences, FiniteSets, TLC

(***************************************************************************)
(* Bounds of the model.                                                    *)
(***************************************************************************)
\* most words in a text handed to a stepwise chunk_text run
MaxWords == 5
\* largest chunk_size / overlap handed to a stepwise chunk_text run
MaxSize == 3
\* most chat turns kept by the modelled run of the web application
MaxChat == 2
\* longest doc_chunks a run lets ingest_documents build
MaxDocChunks == 3
\* most documents in one direct call of ingest_documents
MaxDocs == 2

(***************************************************************************)
(* Helpers.                                                                *)
(***************************************************************************)
Min(a, b) == IF a <= b THEN a ELSE b
Max(a, b) == IF a >= b THEN a ELSE b

Range(s) == {s[k] : k \in DOMAIN s}

RECURSIVE Flatten(_)
\* concatenation of a sequence of sequences (list.extend in a loop, np.vstack)
Flatten(ss) == IF ss = <<>> THEN <<>> ELSE Head(ss) \o Flatten(Tail(ss))

Map(Op(_), s) == [k \in DOMAIN s |-> Op(s[k])]

\* all sequences over S of length at most n
SeqsUpTo(S, n) == UNION {[1..k -> S] : k \in 0..n}

(***************************************************************************)
(* Python string and list primitives.                                      *)
(***************************************************************************)
IsSpace(c) == c = " "

RECURSIVE SplitAcc(_, _, _)
\* str.split(): the maximal runs of non-blank characters, in order
SplitAcc(text, cur, acc) ==
    IF text = <<>>
    THEN IF cur = <<>> THEN acc ELSE Append(acc, cur)
    ELSE IF IsSpace(Head(text))
         THEN SplitAcc(Tail(text), <<>>, IF cur = <<>> THEN acc ELSE Append(acc, cur))
         ELSE SplitAcc(Tail(text), Append(cur, Head(text)), acc)

Split(text) == SplitAcc(text, <<>>, <<>>)

RECURSIVE Join(_)
\* ' '.join(words)
Join(words) ==
    IF words = <<>> THEN <<>>
    ELSE IF Len(words) = 1 THEN words[1]
    ELSE words[1] \o <<" ">> \o Join(Tail(words))

\* a Python slice bound: negative counts from the end, then clamped to 0..n
SliceBound(k, n) == IF k < 0 THEN Max(n + k, 0) ELSE Min(k, n)

\* words[a:b] with 0-based a, b as Python evaluates it
PySlice(words, a, b) ==
    LET n  == Len(words)
        lo == SliceBound(a, n)
        hi == SliceBound(b, n)
    IN  IF lo >= hi THEN <<>> ELSE SubSeq(words, lo + 1, hi)

(***************************************************************************)
(* State.                                                                  *)
(***************************************************************************)
VARIABLES
    \* MCPServer (mcp_server.py)
    srv_ingested_files, \* MCPServer.ingested_files: the records, in insertion order
    vector_index,       \* MCPServer.vector_index: [index_none, vectors, text_chunks]
    chunk_metadata,     \* MCPServer.chunk_metadata: [exists, items] (created lazily)
    \* MCPWrapperOllama (mcp_ollama.py)
    index,              \* MCPWrapperOllama.index: [none, vectors]
    doc_chunks,         \* MCPWrapperOllama.doc_chunks
    \* app.py
    app_state,          \* "starting", "running" or "failed" (startup raised: no request is served)
    ingested_files,     \* app.py's global set of known file ids
    chat_history,       \* app.py's chat_history
    \* history of the run (written, never read by the program)
    last,               \* the last operation: its inputs and what it returned
    ingest_log          \* {[bytes, file_id, kind]}: ingest_file calls that returned a file id

srv_vars == <<srv_ingested_files, vector_index, chunk_metadata>>
mcp_vars == <<index, doc_chunks>>
app_vars == <<app_state, ingested_files, chat_history>>
hist_vars == <<last, ingest_log>>

(***************************************************************************)
(* Files on disk.  Bytes are code points; a file is [name, bytes, readable]:*)
(* readable is whether open() succeeds on it.                              *)
(***************************************************************************)
\* chr of a byte of a single-byte encoding
Chr(b) == CASE b = 97 -> "a" [] b = 98 -> "b" [] b = 99 -> "c" [] b = 32 -> " " [] OTHER -> "?"

BytesAB  == <<97, 32, 98>>
BytesABA == <<97, 32, 98, 32, 97>>
BytesEmpty == <<>>

File(name, bytes, readable) == [name |-> name, bytes |-> bytes, readable |-> readable]

\* the files ingest_file is called on: two names for the same bytes, bytes
\* that differ, an empty file, and two files that cannot be read
DiskFiles ==
    {File("x.txt", BytesABA, TRUE), File("y.bin", BytesABA, TRUE), File("x.txt", BytesAB, TRUE),
     File("x.txt", BytesEmpty, TRUE), File("x.txt", BytesAB, FALSE), File("y.bin", BytesABA, FALSE)}

\* the files uploaded to the web application
UploadFiles ==
    {File("x.txt", BytesAB, TRUE), File("y.bin", BytesABA, TRUE), File("x.txt", BytesEmpty, TRUE)}

\* Path(name).suffix.lower()
Suffix(name) == CASE name = "x.txt" -> ".txt" [] name = "y.bin" -> ".bin" [] name = "z.pdf" -> ".pdf" [] OTHER -> ""

\* mimetypes.guess_type(str(path))[0] or 'unknown'
GuessType(name) ==
    CASE Suffix(name) = ".txt" -> "text/plain"
      [] Suffix(name) = ".pdf" -> "application/pdf"
      [] Suffix(name) = ".bin" -> "application/octet-stream"
      [] OTHER -> "unknown"

\* file_type.startswith('text/')
IsTextType(type) == type \in {"text/plain", "text/html", "text/markdown", "text/css"}

TextSuffixes == {".txt", ".md", ".py", ".js", ".html", ".css", ".json", ".xml", ".yml", ".yaml"}

\* hashlib.sha256(bytes).hexdigest(): one digest per byte string, never ""
Sha256Hex(bytes) == <<"sha256">> \o [k \in DOMAIN bytes |-> ToString(bytes[k])]

\* MCPServer.get_file_hash: "" when reading the file raises
get_file_hash(f) == IF f.readable THEN Sha256Hex(f.bytes) ELSE <<>>

\* the markers, shortened: "[Error: Could not decode file <path>]",
\* "[Error reading PDF: <e>]", "[Binary file: <name>, size: <n> bytes]"
ErrorDecodeMarker == <<"[", "Error", ":", " ", "decode", "]">>
ErrorPdfMarker == <<"[", "Error", " ", "PDF", "]">>
BinaryMarker(name, size) == <<"[", "Binary", " ", "file", ":", name, ToString(size), "]">>

\* MCPServer.read_text_file: the first encoding that decodes wins (latin-1
\* decodes anything); the marker when open() raises
read_text_file(f) == IF f.readable THEN [k \in DOMAIN f.bytes |-> Chr(f.bytes[k])] ELSE ErrorDecodeMarker

\* str.startswith
StartsWith(text, prefix) ==
    /\ Len(text) >= Len(prefix)
    /\ SubSeq(text, 1, Len(prefix)) = prefix

\* ingest_file's choice of content by file type (lines 97-111)
ExtractContent(f) ==
    IF Suffix(f.name) = ".pdf"
    THEN IF f.readable THEN [k \in DOMAIN f.bytes |-> Chr(f.bytes[k])] ELSE ErrorPdfMarker
    ELSE IF IsTextType(GuessType(f.name)) \/ Suffix(f.name) \in TextSuffixes
         THEN read_text_file(f)
         ELSE BinaryMarker(f.name, Len(f.bytes))

\* the test of line 114: content is indexed by the content store
Indexable(content) ==
    /\ content # <<>>
    /\ ~StartsWith(content, <<"[", "Binary", " ", "file">>)
    /\ ~StartsWith(content, <<"[", "Error">>)

(***************************************************************************)
(* Chunking.                                                               *)
(***************************************************************************)
\* MCPServer.chunk_text's defaults chunk_size=512, overlap=64, scaled to the
\* few-word texts of the model
DefaultChunkSize == 2
DefaultOverlap == 1
\* app.py's MCPWrapperOllama(chunk_size=300), scaled likewise
WrapperChunkSize == 2

RECURSIVE ChunkLoop(_, _, _, _, _)
\* the while loop of MCPServer.chunk_text from position i on (chunk_size >
\* overlap: the loop ends)
ChunkLoop(words, i, chunk_size, overlap, meta) ==
    IF i < Len(words)
    THEN <<[text |-> Join(PySlice(words, i, i + chunk_size)),
            file_id |-> meta.file_id, file_name |-> meta.file_name, file_type |-> meta.file_type]>>
         \o ChunkLoop(words, i + chunk_size - overlap, chunk_size, overlap, meta)
    ELSE <<>>

\* MCPServer.chunk_text(text, chunk_size, overlap, file_id, file_name, file_type)
chunk_text(text, chunk_size, overlap, meta) == ChunkLoop(Split(text), 0, chunk_size, overlap, meta)

\* MCPWrapperOllama.chunk_text: one window per i in range(0, len(words), chunk_size)
mcp_chunk_text(text, chunk_size) ==
    LET words == Split(text)
        n == Len(words)
        count == (n + chunk_size - 1) \div chunk_size
    IN  [k \in 1..count |-> Join(PySlice(words, (k - 1) * chunk_size, (k - 1) * chunk_size + chunk_size))]

(***************************************************************************)
(* The embedding gateway: one vector per text, the same for the same text. *)
(***************************************************************************)
Embed(text) == [emb |-> text]

Encode(texts) == [k \in DOMAIN texts |-> Embed(texts[k])]

(***************************************************************************)
(* MCPServer: the content store.                                           *)
(***************************************************************************)
StoredIds == {srv_ingested_files[k].id : k \in DOMAIN srv_ingested_files}

\* MCPServer.get_file: the record stored under file_id
get_file(file_id) ==
    LET k == CHOOSE k \in DOMAIN srv_ingested_files : srv_ingested_files[k].id = file_id
    IN  srv_ingested_files[k]

\* MCPServer.list_files: the ids of the records, in insertion order
list_files == [k \in DOMAIN srv_ingested_files |-> srv_ingested_files[k].id]

\* VectorIndex.add_documents(docs), the encode call having returned
add_documents(vi, docs) ==
    [index_none |-> FALSE,
     vectors |-> vi.vectors \o Encode(docs),
     text_chunks |-> vi.text_chunks \o docs]

\* the record ingest_file stores (path, ingested_at and metadata left out)
FileInfo(f, file_hash, content) ==
    [id |-> file_hash, name |-> f.name, size |-> Len(f.bytes),
     type |-> GuessType(f.name), content |-> content]

\* ingest_file as it would be with the chunk metadata extended before
\* add_documents is called: a failed encode leaves the metadata behind
ingest_file_metadata_first(f, exists, embed_ok) ==
    LET same == [files |-> srv_ingested_files, vi |-> vector_index, meta |-> chunk_metadata]
        file_hash == get_file_hash(f)
        file_type == GuessType(f.name)
        content == ExtractContent(f)
        chunks == chunk_text(content, DefaultChunkSize, DefaultOverlap,
                             [file_id |-> file_hash, file_name |-> f.name, file_type |-> file_type])
        texts == [k \in DOMAIN chunks |-> chunks[k].text]
        stored == Append(srv_ingested_files, FileInfo(f, file_hash, content))
        extended == [exists |-> TRUE, items |-> chunk_metadata.items \o chunks]
    IN  IF ~exists
        THEN same @@ [result |-> [kind |-> "not_found", file_id |-> <<>>]]
        ELSE IF file_hash \in StoredIds
        THEN same @@ [result |-> [kind |-> "already_exists", file_id |-> file_hash]]
        ELSE IF ~Indexable(content)
        THEN [same EXCEPT !.files = stored] @@ [result |-> [kind |-> "success", file_id |-> file_hash]]
        ELSE IF ~embed_ok
        THEN [same EXCEPT !.meta = extended] @@ [result |-> [kind |-> "error", file_id |-> <<>>]]
        ELSE [files |-> stored, vi |-> add_documents(vector_index, texts), meta |-> extended]
             @@ [result |-> [kind |-> "success", file_id |-> file_hash]]

\* ingest_file as it would be without the test of line 94: the record
\* stored under the hash is replaced by the new one
ingest_file_overwrite(f, exists, embed_ok) ==
    LET same == [files |-> srv_ingested_files, vi |-> vector_index, meta |-> chunk_metadata]
        file_hash == get_file_hash(f)
        file_type == GuessType(f.name)
        content == ExtractContent(f)
        chunks == chunk_text(content, DefaultChunkSize, DefaultOverlap,
                             [file_id |-> file_hash, file_name |-> f.name, file_type |-> file_type])
        texts == [k \in DOMAIN chunks |-> chunks[k].text]
        stored == IF file_hash \in StoredIds
                  THEN [k \in DOMAIN srv_ingested_files |->
                           IF srv_ingested_files[k].id = file_hash
                           THEN FileInfo(f, file_hash, content) ELSE srv_ingested_files[k]]
                  ELSE Append(srv_ingested_files, FileInfo(f, file_hash, content))
    IN  IF ~exists
        THEN same @@ [result |-> [kind |-> "not_found", file_id |-> <<>>]]
        ELSE IF ~Indexable(content)
        THEN [same EXCEPT !.files = stored] @@ [result |-> [kind |-> "success", file_id |-> file_hash]]
        ELSE IF ~embed_ok
        THEN same @@ [result |-> [kind |-> "error", file_id |-> <<>>]]
        ELSE [files |-> stored,
              vi |-> add_documents(vector_index, texts),
              meta |-> [exists |-> TRUE, items |-> chunk_metadata.items \o chunks]]
             @@ [result |-> [kind |-> "success", file_id |-> file_hash]]

\* MCPServer.ingest_file(file_path) on the file f, or on a path that does not
\* exist; embed_ok is whether the encode call of add_documents returns.
\* The value is the store afterwards and the dict returned.
ingest_file(f, exists, embed_ok) ==
    LET same == [files |-> srv_ingested_files, vi |-> vector_index, meta |-> chunk_metadata]
        file_hash == get_file_hash(f)
        file_type == GuessType(f.name)
        content == ExtractContent(f)
        chunks == chunk_text(content, DefaultChunkSize, DefaultOverlap,
                             [file_id |-> file_hash, file_name |-> f.name, file_type |-> file_type])
        texts == [k \in DOMAIN chunks |-> chunks[k].text]
        stored == Append(srv_ingested_files, FileInfo(f, file_hash, content))
    IN  IF ~exists
        THEN same @@ [result |-> [kind |-> "not_found", file_id |-> <<>>]]
        ELSE IF file_hash \in StoredIds
        THEN same @@ [result |-> [kind |-> "already_exists", file_id |-> file_hash]]
        ELSE IF ~Indexable(content)
        THEN [same EXCEPT !.files = stored] @@ [result |-> [kind |-> "success", file_id |-> file_hash]]
        ELSE IF ~embed_ok
        THEN same @@ [result |-> [kind |-> "error", file_id |-> <<>>]]
        ELSE [files |-> stored,
              vi |-> add_documents(vector_index, texts),
              meta |-> [exists |-> TRUE, items |-> chunk_metadata.items \o chunks]]
             @@ [result |-> [kind |-> "success", file_id |-> file_hash]]

(***************************************************************************)
(* MCPWrapperOllama: the retrieval index.                                  *)
(***************************************************************************)
\* ingest_documents as it would be with index.add inside the loop: the
\* vectors of the documents before the failing one stay in the index
ingest_documents_add_in_loop(idx, chunks, documents, refresh, fail_at) ==
    LET chunks0 == IF refresh THEN <<>> ELSE chunks
        idx0 == IF refresh /\ ~idx.none THEN [none |-> FALSE, vectors |-> <<>>] ELSE idx
        reached == IF fail_at = 0 THEN Len(documents) ELSE fail_at
        added == Flatten([k \in 1..reached |-> mcp_chunk_text(documents[k], WrapperChunkSize)])
        embedded == Flatten([k \in 1..(IF fail_at = 0 THEN reached ELSE reached - 1) |->
                                mcp_chunk_text(documents[k], WrapperChunkSize)])
    IN  [index |-> IF embedded = <<>> THEN idx0
                   ELSE [none |-> FALSE, vectors |-> idx0.vectors \o Encode(embedded)],
         doc_chunks |-> chunks0 \o added, raised |-> fail_at > 0, reached |-> reached]

\* ingest_documents as it would be if refresh=True cleared nothing
ingest_documents_keep_on_refresh(idx, chunks, documents, refresh, fail_at) ==
    LET reached == IF fail_at = 0 THEN Len(documents) ELSE fail_at
        added == Flatten([k \in 1..reached |-> mcp_chunk_text(documents[k], WrapperChunkSize)])
    IN  IF fail_at > 0
        THEN [index |-> idx, doc_chunks |-> chunks \o added, raised |-> TRUE, reached |-> reached]
        ELSE IF documents = <<>>
        THEN [index |-> idx, doc_chunks |-> chunks, raised |-> FALSE, reached |-> 0]
        ELSE [index |-> [none |-> FALSE, vectors |-> idx.vectors \o Encode(added)],
              doc_chunks |-> chunks \o added, raised |-> FALSE, reached |-> reached]

\* MCPWrapperOllama.ingest_documents(documents, refresh) from the state
\* (idx, chunks); fail_at = k > 0: the encode call of the k-th document
\* raises, fail_at = 0: none does.  The value is the state afterwards,
\* whether the call raised, and the documents chunk_text was called on.
\* (Whether encode returns for a document without chunks is left to fail_at.)
ingest_documents(idx, chunks, documents, refresh, fail_at) ==
    LET chunks0 == IF refresh THEN <<>> ELSE chunks
        idx0 == IF refresh /\ ~idx.none THEN [none |-> FALSE, vectors |-> <<>>] ELSE idx
        reached == IF fail_at = 0 THEN Len(documents) ELSE fail_at
        added == Flatten([k \in 1..reached |-> mcp_chunk_text(documents[k], WrapperChunkSize)])
    IN  IF fail_at > 0
        THEN [index |-> idx0, doc_chunks |-> chunks0 \o added, raised |-> TRUE, reached |-> reached]
        ELSE IF documents = <<>>
        THEN [index |-> idx0, doc_chunks |-> chunks0, raised |-> FALSE, reached |-> 0]
        ELSE [index |-> [none |-> FALSE, vectors |-> idx0.vectors \o Encode(added)],
              doc_chunks |-> chunks0 \o added, raised |-> FALSE, reached |-> reached]

(***************************************************************************)
(* MCPWrapperOllama: retrieval and the query policy.  Scores and           *)
(* thresholds are in tenths.                                               *)
(***************************************************************************)
\* the cosine scores a search may report: -1.0, 0.6, 0.8
Scores == {0 - 10, 6, 8}
\* the -1 of `if s != -1` (line 64), in tenths
MinusOne == -10
\* the score faiss gives the padding entries of an inner-product search
\* (the lowest float), as a number below every score and threshold
LowestScore == -1000000
\* top_k=5 of retrieve_with_scores and query, scaled to the few chunks of the model
TopK == 2

\* what index.search(query_vector, top_k) may return before padding: the
\* best min(top_k, ntotal) entries as [pos, score], pos the 0-based position
\* in the index, best first; equal vectors score equally
Hits(idx, top_k) ==
    LET n == Len(idx.vectors)
        m == Min(top_k, n)
    IN  {h \in [1..m -> [pos : 0..(n - 1), score : Scores]] :
            /\ \A a, b \in 1..m : a < b => h[a].pos # h[b].pos /\ h[a].score >= h[b].score
            /\ \A a, b \in 1..m :
                   idx.vectors[h[a].pos + 1] = idx.vectors[h[b].pos + 1] => h[a].score = h[b].score}

\* the top_k entries search returns: the hits, then padding with position -1
Padded(hits, top_k) ==
    hits \o [k \in 1..(top_k - Len(hits)) |-> [pos |-> 0 - 1, score |-> LowestScore]]

IsRealPos(e) == e.pos # 0 - 1
IsKeptScore(e) == e.score # MinusOne

\* MCPWrapperOllama.retrieve_with_scores(query, top_k) on the state (idx,
\* chunks); hits is what the search returns, embed_ok whether encoding the
\* query returns
retrieve_with_scores(idx, chunks, hits, top_k, embed_ok) ==
    LET entries == Padded(hits, top_k)
        kept == SelectSeq(entries, IsRealPos)
        kept_scores == SelectSeq(entries, IsKeptScore)
    IN  IF idx.none \/ Len(chunks) = 0
        THEN [raised |-> "no", results |-> <<>>, scores |-> <<>>, embed_called |-> FALSE]
        ELSE IF ~embed_ok
        THEN [raised |-> "embedding", results |-> <<>>, scores |-> <<>>, embed_called |-> TRUE]
        ELSE IF \E k \in DOMAIN kept : kept[k].pos + 1 > Len(chunks)
        THEN [raised |-> "index_error", results |-> <<>>, scores |-> <<>>, embed_called |-> TRUE]
        ELSE [raised |-> "no",
              results |-> [k \in DOMAIN kept |-> chunks[kept[k].pos + 1]],
              scores |-> [k \in DOMAIN kept_scores |-> kept_scores[k].score],
              embed_called |-> TRUE]

RECURSIVE JoinBlank(_)
\* "\n\n".join(chunks)
JoinBlank(chunks) ==
    IF chunks = <<>> THEN <<>>
    ELSE IF Len(chunks) = 1 THEN chunks[1]
    ELSE chunks[1] \o <<"\n\n">> \o JoinBlank(Tail(chunks))

UngroundedPrompt(question) == <<"Question:\n">> \o question \o <<"\nAnswer:">>

\* MCPWrapperOllama.build_prompt(question, context_chunks)
build_prompt(question, context_chunks) ==
    LET context == JoinBlank(context_chunks)
    IN  IF context # <<>>
        THEN <<"Context:\n">> \o context \o <<"\n\nQuestion:\n">> \o question \o <<"\nAnswer:">>
        ELSE UngroundedPrompt(question)

HybridPrompt(question, chunks) ==
    <<"Use the following context if relevant, but also apply your own reasoning:\n">>
    \o JoinBlank(chunks) \o <<"\n\nQuestion:\n">> \o question \o <<"\nAnswer:">>

\* the branch of query (lines 89-101) taken for what retrieval returned;
\* "index_error" when scores[0] is read from an empty list
Branch(results, scores, strong_threshold, weak_threshold) ==
    IF results = <<>> THEN "UNGROUNDED"
    ELSE IF scores = <<>> THEN "index_error"
    ELSE IF scores[1] >= strong_threshold THEN "STRICT_GROUNDED"
    ELSE IF scores[1] >= weak_threshold THEN "HYBRID_GROUNDED"
    ELSE "UNGROUNDED"

NoQuery ==
    [raised |-> "no", embed_called |-> FALSE, hits |-> <<>>, results |-> <<>>, scores |-> <<>>,
     mode |-> "none", prompt |-> <<>>, gen_called |-> FALSE, response |-> <<>>]

\* MCPWrapperOllama.query(question, strong_threshold, weak_threshold, top_k)
\* on the state (idx, chunks); gen_ok is whether ollama.generate returns,
\* answer the text it returns
query(idx, chunks, question, strong_threshold, weak_threshold, top_k, hits, embed_ok, gen_ok, answer) ==
    LET r == retrieve_with_scores(idx, chunks, hits, top_k, embed_ok)
        mode == Branch(r.results, r.scores, strong_threshold, weak_threshold)
        prompt == CASE mode = "STRICT_GROUNDED" -> build_prompt(question, r.results)
                    [] mode = "HYBRID_GROUNDED" -> HybridPrompt(question, r.results)
                    [] OTHER -> UngroundedPrompt(question)
        base == [NoQuery EXCEPT !.embed_called = r.embed_called, !.hits = hits]
    IN  IF r.raised # "no"
        THEN [base EXCEPT !.raised = r.raised]
        ELSE IF mode = "index_error"
        THEN [base EXCEPT !.raised = "index_error", !.results = r.results, !.scores = r.scores]
        ELSE IF ~gen_ok
        THEN [base EXCEPT !.raised = "generation", !.results = r.results, !.scores = r.scores,
                          !.mode = mode, !.prompt = prompt, !.gen_called = TRUE]
        ELSE [base EXCEPT !.results = r.results, !.scores = r.scores, !.mode = mode,
                          !.prompt = prompt, !.gen_called = TRUE, !.response = answer]

\* whether a call of retrieve_with_scores on (idx, chunks) reaches the search
Searches(idx, chunks, embed_ok) == ~idx.none /\ Len(chunks) > 0 /\ embed_ok

(***************************************************************************)
(* MCPServer.chunk_text, one loop iteration at a time.                     *)
(***************************************************************************)
VARIABLES ck_pc, ck_text, ck_size, ck_overlap, ck_words, ck_i, ck_chunks

ck_vars == <<ck_pc, ck_text, ck_size, ck_overlap, ck_words, ck_i, ck_chunks>>

(***************************************************************************)
(* The event loop serving app.py's handlers, and files_db.json on disk.    *)
(***************************************************************************)
VARIABLES
    loop_owner,   \* the coroutine the event loop is running, or "none"
    task,         \* per coroutine: its position and its local variables
    files_db,     \* mcp_storage/files_db.json: [exists, text]
    db            \* the process writing files_db.json: its position and locals

ev_vars == <<loop_owner, task>>
db_vars == <<files_db, db>>

vars == <<srv_vars, mcp_vars, app_vars, hist_vars, ck_vars, ev_vars, db_vars>>

\* the words a text is made of
Words == {<<"a">>, <<"b", "c">>}

RECURSIVE Render(_, _, _)
\* the text made of the words ws, each followed by gap blanks, after lead blanks
Render(ws, lead, gap) ==
    IF lead > 0 THEN <<" ">> \o Render(ws, lead - 1, gap)
    ELSE IF ws = <<>> THEN <<>>
    ELSE Head(ws) \o [k \in 1..gap |-> " "] \o Render(Tail(ws), 0, gap)

\* the texts a run is started on: up to MaxWords words, separated by one or
\* two blanks, with or without a leading blank (a trailing blank always)
Texts == {Render(ws, lead, gap) : ws \in SeqsUpTo(Words, MaxWords), lead \in 0..1, gap \in 1..2}

\* the list of a run that never ends is kept up to this length
MaxChunks == MaxWords + 2

\* below this value of i every window words[i:i+chunk_size] is empty
ILow == 0 - (MaxWords + MaxSize)

\* words = text.split(); chunks = []; i = 0
ChunkEnter ==
    /\ ck_pc = "call"
    /\ ck_words' = Split(ck_text)
    /\ ck_chunks' = <<>>
    /\ ck_i' = 0
    /\ ck_pc' = "test"
    /\ UNCHANGED <<ck_text, ck_size, ck_overlap>>
    /\ UNCHANGED <<srv_vars, mcp_vars, app_vars, hist_vars, ev_vars, db_vars>>

\* while i < len(words):
ChunkTest ==
    /\ ck_pc = "test"
    /\ ck_pc' = IF ck_i < Len(ck_words) THEN "body" ELSE "done"
    /\ UNCHANGED <<ck_text, ck_size, ck_overlap, ck_words, ck_i, ck_chunks>>
    /\ UNCHANGED <<srv_vars, mcp_vars, app_vars, hist_vars, ev_vars, db_vars>>

\* the advance with the overlap forgotten
ChunkAdvanceNoOverlap(i, size, overlap) == i + size

\* i += chunk_size - overlap
ChunkAdvance(i, size, overlap) == i + size - overlap

\* the loop body: chunks.append(' '.join(words[i:i+chunk_size])); i += ...
\* (the list stops growing at MaxChunks and i stops falling at ILow: past
\* them a run that never ends only repeats itself)
ChunkBody ==
    /\ ck_pc = "body"
    /\ ck_chunks' = IF Len(ck_chunks) < MaxChunks
                    THEN Append(ck_chunks, Join(PySlice(ck_words, ck_i, ck_i + ck_size)))
                    ELSE ck_chunks
    /\ ck_i' = Max(ChunkAdvance(ck_i, ck_size, ck_overlap), ILow)
    /\ ck_pc' = "test"
    /\ UNCHANGED <<ck_text, ck_size, ck_overlap, ck_words>>
    /\ UNCHANGED <<srv_vars, mcp_vars, app_vars, hist_vars, ev_vars, db_vars>>

ChunkNext == ChunkEnter \/ ChunkTest \/ ChunkBody

(***************************************************************************)
(* Operations of MCPServer, called directly (test_ingest.py, auto_ingest). *)
(***************************************************************************)
NoOp == [op |-> "none"]

\* mcp_server.ingest_file(path): the store takes the value ingest_file gives
DoIngestFile(f, exists, embed_ok) ==
    LET r == ingest_file(f, exists, embed_ok)
    IN  /\ srv_ingested_files' = r.files
        /\ vector_index' = r.vi
        /\ chunk_metadata' = r.meta
        /\ last' = [op |-> "ingest_file", file |-> f, exists |-> exists, result |-> r.result]
        /\ ingest_log' = IF r.result.kind \in {"success", "already_exists"}
                         THEN ingest_log \cup {[bytes |-> f.bytes, file_id |-> r.result.file_id,
                                                 kind |-> r.result.kind]}
                         ELSE ingest_log

IngestFile ==
    \E f \in DiskFiles, exists \in BOOLEAN, embed_ok \in BOOLEAN :
        /\ DoIngestFile(f, exists, embed_ok)
        /\ UNCHANGED <<mcp_vars, app_vars, ck_vars, ev_vars, db_vars>>

(***************************************************************************)
(* MCPServer's read operations: get_file, list_files, search_files.        *)
(***************************************************************************)
\* the squared L2 distances a search of the content store's index may report
Distances == {0, 4}
\* the distance faiss gives the padding entries of an L2 search (the
\* highest float), as a number above every distance
HighestDistance == 1000000
\* top_k=5 of the search in search_files, scaled to the few chunks of the model
SearchTopK == 2

\* what self.index.search(q_vec, top_k) may find in the content store's
\* index: the nearest min(top_k, ntotal) entries as [pos, score], nearest
\* first; equal vectors are equally far
SearchHits(vi, top_k) ==
    LET n == Len(vi.vectors)
        m == Min(top_k, n)
    IN  {h \in [1..m -> [pos : 0..(n - 1), score : Distances]] :
            /\ \A a, b \in 1..m : a < b => h[a].pos # h[b].pos /\ h[a].score <= h[b].score
            /\ \A a, b \in 1..m :
                   vi.vectors[h[a].pos + 1] = vi.vectors[h[b].pos + 1] => h[a].score = h[b].score}

\* the top_k entries the search returns: the hits, then padding with position -1
SearchPadded(hits, top_k) ==
    hits \o [k \in 1..(top_k - Len(hits)) |-> [pos |-> 0 - 1, score |-> HighestDistance]]

\* text_chunks[i] as Python reads it: a negative i counts from the end
PyItem(list, i) == IF i < 0 THEN list[Len(list) + i + 1] ELSE list[i + 1]

\* VectorIndex.search(query, top_k): the (chunk, distance) pairs of the
\* entries whose position passes `i < len(self.text_chunks)`
search(vi, hits, top_k, embed_ok) ==
    LET entries == SearchPadded(hits, top_k)
        kept == SelectSeq(entries, LAMBDA e : e.pos < Len(vi.text_chunks))
    IN  IF ~embed_ok THEN [raised |-> "embedding", pairs |-> <<>>]
        ELSE IF vi.index_none THEN [raised |-> "no_index", pairs |-> <<>>]
        ELSE [raised |-> "no",
              pairs |-> [k \in DOMAIN kept |->
                            [chunk |-> PyItem(vi.text_chunks, kept[k].pos), score |-> kept[k].score]]]

\* next((c for c in self.chunk_metadata if c['text'] == chunk_text), None):
\* the position of the first chunk with that text, 0 for None
FirstWithText(items, text) ==
    IF \E k \in DOMAIN items : items[k].text = text
    THEN CHOOSE k \in DOMAIN items : items[k].text = text /\ \A j \in 1..(k - 1) : items[j].text # text
    ELSE 0

\* MCPServer.search_files(query): a result is [chunk, score, lineage], the
\* lineage being [file_id, file_name, file_type] or "none"
search_files(hits, embed_ok) ==
    LET r == search(vector_index, hits, SearchTopK, embed_ok)
        Result(pair) ==
            LET k == FirstWithText(chunk_metadata.items, pair.chunk)
            IN  [chunk |-> pair.chunk, score |-> pair.score,
                 lineage |-> IF k = 0 THEN <<>>
                             ELSE <<chunk_metadata.items[k].file_id, chunk_metadata.items[k].file_name,
                                    chunk_metadata.items[k].file_type>>]
    IN  IF r.raised # "no" THEN [raised |-> r.raised, results |-> <<>>]
        ELSE IF ~chunk_metadata.exists THEN [raised |-> "no", results |-> <<>>]
        ELSE [raised |-> "no", results |-> [k \in DOMAIN r.pairs |-> Result(r.pairs[k])]]

\* the files on disk next to the read operations: two files that share the
\* chunk "a b", a second name for the bytes of one of them, and a file that
\* is not indexed
StoreFiles ==
    {File("x.txt", BytesABA, TRUE), File("x.txt", BytesAB, TRUE), File("y.bin", BytesABA, TRUE),
     File("y.bin", BytesAB, FALSE)}

StoreIngestFile ==
    \E f \in StoreFiles, embed_ok \in BOOLEAN :
        /\ DoIngestFile(f, TRUE, embed_ok)
        /\ UNCHANGED <<mcp_vars, app_vars, ck_vars, ev_vars, db_vars>>

\* mcp_server.get_file(file_id), on a stored id or on an unknown one
GetFile ==
    \E file_id \in StoredIds \cup {<<"unknown">>} :
        /\ last' = [op |-> "get_file", file_id |-> file_id,
                    result |-> IF file_id \in StoredIds THEN get_file(file_id)
                               ELSE [error |-> "File not found"]]
        /\ UNCHANGED <<srv_vars, mcp_vars, app_vars, ingest_log, ck_vars, ev_vars, db_vars>>

\* mcp_server.list_files()
ListFiles ==
    /\ last' = [op |-> "list_files", result |-> list_files]
    /\ UNCHANGED <<srv_vars, mcp_vars, app_vars, ingest_log, ck_vars, ev_vars, db_vars>>

\* mcp_server.search_files(query)
SearchFiles ==
    \E embed_ok \in BOOLEAN :
      \E hits \in (IF embed_ok /\ ~vector_index.index_none
                   THEN SearchHits(vector_index, SearchTopK) ELSE {<<>>}) :
        LET r == search_files(hits, embed_ok)
        IN  /\ last' = [op |-> "search_files", hits |-> hits, raised |-> r.raised,
                        results |-> r.results]
            /\ UNCHANGED <<srv_vars, mcp_vars, app_vars, ingest_log, ck_vars, ev_vars, db_vars>>

(***************************************************************************)
(* Operations of MCPWrapperOllama, called directly (build_index.py).       *)
(***************************************************************************)
\* the texts handed to ingest_documents directly: two chunks, one chunk
\* (fewer than top_k), none
DocTexts == {<<"a", " ", "b", " ", "a">>, <<"b">>, <<>>}
\* the (strong_threshold, weak_threshold) handed to query directly: app.py's
\* 0.7 and 0.5, a strong threshold below the weak one (as build_index.py
\* passes), and thresholds below every cosine
ThresholdPairs == {<<7, 5>>, <<5, 7>>, <<0 - 20, 0 - 20>>}
Questions == {<<"q">>}
Answers == {<<"answer">>}

IngestDocuments ==
    \E documents \in SeqsUpTo(DocTexts, MaxDocs), refresh \in BOOLEAN :
      \E fail_at \in 0..Len(documents) :
        LET r == ingest_documents(index, doc_chunks, documents, refresh, fail_at)
        IN  /\ Len(r.doc_chunks) <= MaxDocChunks
            /\ index' = r.index
            /\ doc_chunks' = r.doc_chunks
            /\ last' = [op |-> "ingest_documents", documents |-> documents, refresh |-> refresh,
                        raised |-> r.raised]
            /\ UNCHANGED <<srv_vars, app_vars, ingest_log, ck_vars, ev_vars, db_vars>>

Query ==
    \E question \in Questions, th \in ThresholdPairs,
       embed_ok \in BOOLEAN, gen_ok \in BOOLEAN, answer \in Answers :
      \E hits \in (IF Searches(index, doc_chunks, embed_ok) THEN Hits(index, TopK) ELSE {<<>>}) :
        /\ last' = [op |-> "query", strong |-> th[1], weak |-> th[2], question |-> question,
                    q |-> query(index, doc_chunks, question, th[1], th[2], TopK, hits,
                                embed_ok, gen_ok, answer)]
        /\ UNCHANGED <<srv_vars, mcp_vars, app_vars, ingest_log, ck_vars, ev_vars, db_vars>>

(***************************************************************************)
(* app.py: the startup refresh, /upload and /send.  A handler runs to its  *)
(* end before the next starts.                                             *)
(***************************************************************************)
\* strong_threshold=0.7, weak_threshold=0.5 of the call in send_message
StrongThreshold == 7
WeakThreshold == 5

\* [mcp_server.get_file(id)["content"] for id in ids]
Contents(ids) == [k \in DOMAIN ids |-> get_file(ids[k]).content]

\* new_files taken for every listed file as soon as one of them is new
NewFilesAll(ids, known) == IF Range(ids) \subseteq known THEN <<>> ELSE ids

\* the ids of list_files(), in its order, that are in new_files =
\* current_file_ids - ingested_files
NewFiles(ids, known) == SelectSeq(ids, LAMBDA id : id \notin known)

\* what the history keeps of a /send request's query
Summary(q) ==
    [raised |-> q.raised, embed_called |-> q.embed_called, gen_called |-> q.gen_called,
     mode |-> q.mode, response |-> q.response]

\* the turn appended whether or not query returned
ChatAfterAlways(history, user_input, q) == Append(history, [user |-> user_input, bot |-> q.response])

\* lines 62-65 of send_message: the turn is appended when query returns; when
\* it raises, the handler ends there
ChatAfter(history, user_input, q) ==
    IF q.raised = "no" THEN Append(history, [user |-> user_input, bot |-> q.response]) ELSE history

\* build_index, the startup handler
Startup ==
    /\ app_state = "starting"
    /\ ingested_files' = Range(list_files)
    /\ \E fail_at \in 0..Len(list_files) :
         LET documents == Contents(list_files)
             r == ingest_documents(index, doc_chunks, documents, TRUE, fail_at)
         IN  IF documents # <<>>
             THEN /\ index' = r.index
                  /\ doc_chunks' = r.doc_chunks
                  /\ app_state' = IF r.raised THEN "failed" ELSE "running"
                  /\ last' = [op |-> "startup", raised |-> r.raised]
             ELSE /\ fail_at = 0
                  /\ UNCHANGED mcp_vars
                  /\ app_state' = "running"
                  /\ last' = [op |-> "startup", raised |-> FALSE]
    /\ UNCHANGED <<srv_vars, chat_history, ingest_log, ck_vars, ev_vars, db_vars>>

\* upload_file: the uploaded bytes are written under mcp_storage/ and the
\* file just written is ingested
Upload ==
    /\ app_state = "running"
    /\ \E f \in UploadFiles, embed_ok \in BOOLEAN :
         DoIngestFile(f, TRUE, embed_ok)
    /\ UNCHANGED <<mcp_vars, app_vars, ck_vars, ev_vars, db_vars>>

\* send_message: the incremental sync, then the query, then the chat turn
Send ==
    /\ app_state = "running"
    /\ Len(chat_history) < MaxChat
    /\ \E user_input \in Questions, embed_ok \in BOOLEAN, gen_ok \in BOOLEAN, answer \in Answers :
         LET new_ids == NewFiles(list_files, ingested_files)
             new_docs == Contents(new_ids)
         IN  \E fail_at \in 0..Len(new_docs) :
               LET r == ingest_documents(index, doc_chunks, new_docs, FALSE, fail_at)
                   synced == new_ids # <<>>
                   idx1 == IF synced THEN r.index ELSE index
                   chunks1 == IF synced THEN r.doc_chunks ELSE doc_chunks
                   sync == [ran |-> synced, raised |-> synced /\ r.raised,
                            chunked |-> IF synced THEN SubSeq(new_ids, 1, r.reached) ELSE <<>>,
                            new_ids |-> new_ids, fail_at |-> fail_at,
                            known_before |-> ingested_files]
               IN  /\ Len(chunks1) <= MaxDocChunks
                   /\ index' = idx1
                   /\ doc_chunks' = chunks1
                   /\ IF sync.raised
                      THEN /\ UNCHANGED <<ingested_files, chat_history>>
                           /\ last' = [op |-> "send", sync |-> sync, q |-> Summary(NoQuery)]
                      ELSE \E hits \in (IF Searches(idx1, chunks1, embed_ok)
                                        THEN Hits(idx1, TopK) ELSE {<<>>}) :
                             LET q == query(idx1, chunks1, user_input, StrongThreshold,
                                            WeakThreshold, TopK, hits, embed_ok, gen_ok, answer)
                             IN  /\ ingested_files' = IF synced THEN Range(list_files)
                                                      ELSE ingested_files
                                 /\ chat_history' = ChatAfter(chat_history, user_input, q)
                                 /\ last' = [op |-> "send", sync |-> sync, q |-> Summary(q)]
    /\ app_state' = app_state
    /\ UNCHANGED <<srv_vars, ingest_log, ck_vars, ev_vars, db_vars>>

(***************************************************************************)
(* app.py's handlers as coroutines of one event loop.  A coroutine keeps   *)
(* the loop from its first statement to its next await or to its end; the  *)
(* startup handler ends before a request is served.  The statements of     *)
(* ingest_documents and of retrieve_with_scores are steps of their own.    *)
(***************************************************************************)
\* the startup handler, two /send requests and two /upload requests
Coroutines == {"startup", "send1", "send2", "upload1", "upload2"}
UploadRequests == {"upload1", "upload2"}
SendRequests == {"send1", "send2"}

\* a coroutine before its first statement
Fresh ==
    [pc |-> "start", documents |-> <<>>, k |-> 0, embeddings |-> <<>>, refresh |-> FALSE,
     current |-> {}, hits |-> <<>>, mode |-> "none"]

\* a coroutine that has returned or raised
Finished == [Fresh EXCEPT !.pc = "done"]

\* every position of a coroutine
Positions == {"start", "upload_write", "ing_clear", "ing_doc", "ing_add", "send_mark",
              "retrieve", "retr_map", "answer", "done"}

\* an await at every position
AwaitEverywhere == Positions

\* the positions a coroutine is suspended at: after the `await file.read()`
\* of upload_file (line 41); build_index and send_message have no await
AwaitPoints == {"upload_write"}

\* the loop may give coroutine t its next step
Runnable(t) ==
    /\ task[t].pc # "done"
    /\ loop_owner \in {t, "none"}
    /\ t = "startup" \/ app_state = "running"

\* who holds the loop once t has moved to position pc
OwnerAfter(t, pc) == IF pc = "done" \/ pc \in AwaitPoints THEN "none" ELSE t

\* build_index, lines 23-26
StartupList ==
    /\ Runnable("startup") /\ task["startup"].pc = "start"
    /\ ingested_files' = Range(list_files)
    /\ LET documents == Contents(list_files)
           pc == IF documents # <<>> THEN "ing_clear" ELSE "done"
       IN  /\ task' = [task EXCEPT !["startup"] =
                          IF documents # <<>>
                          THEN [Fresh EXCEPT !.pc = pc, !.documents = documents, !.refresh = TRUE]
                          ELSE Finished]
           /\ app_state' = IF documents # <<>> THEN app_state ELSE "running"
           /\ loop_owner' = OwnerAfter("startup", pc)
    /\ UNCHANGED <<srv_vars, mcp_vars, chat_history, hist_vars, ck_vars, db_vars>>

\* send_message, lines 51-57
SendList ==
    \E t \in SendRequests :
        /\ Runnable(t) /\ task[t].pc = "start"
        /\ LET new_ids == NewFiles(list_files, ingested_files)
               pc == IF new_ids # <<>> THEN "ing_clear" ELSE "retrieve"
           IN  /\ task' = [task EXCEPT ![t] =
                              [Fresh EXCEPT !.pc = pc, !.documents = Contents(new_ids),
                                            !.current = IF new_ids # <<>> THEN Range(list_files) ELSE {}]]
               /\ loop_owner' = OwnerAfter(t, pc)
        /\ UNCHANGED <<srv_vars, mcp_vars, app_vars, hist_vars, ck_vars, db_vars>>

\* ingest_documents, lines 31-36: the reset of a refresh
IngClear ==
    \E t \in Coroutines :
        /\ Runnable(t) /\ task[t].pc = "ing_clear"
        /\ doc_chunks' = IF task[t].refresh THEN <<>> ELSE doc_chunks
        /\ index' = IF task[t].refresh /\ ~index.none THEN [none |-> FALSE, vectors |-> <<>>]
                    ELSE index
        /\ LET pc == IF task[t].documents = <<>> THEN "ing_add" ELSE "ing_doc"
           IN  /\ task' = [task EXCEPT ![t].pc = pc]
               /\ loop_owner' = OwnerAfter(t, pc)
        /\ UNCHANGED <<srv_vars, app_vars, hist_vars, ck_vars, db_vars>>

\* ingest_documents, lines 38-44: one document; when encode raises the
\* handler ends there, and a startup that raised serves no request
IngDoc ==
    \E t \in Coroutines, embed_ok \in BOOLEAN :
        /\ Runnable(t) /\ task[t].pc = "ing_doc"
        /\ LET k == task[t].k + 1
               chunks == mcp_chunk_text(task[t].documents[k], WrapperChunkSize)
               pc == IF ~embed_ok THEN "done"
                     ELSE IF k = Len(task[t].documents) THEN "ing_add" ELSE "ing_doc"
           IN  /\ doc_chunks' = doc_chunks \o chunks
               /\ task' = [task EXCEPT ![t] =
                              IF embed_ok
                              THEN [@ EXCEPT !.pc = pc, !.k = k,
                                             !.embeddings = @ \o Encode(chunks)]
                              ELSE Finished]
               /\ app_state' = IF ~embed_ok /\ t = "startup" THEN "failed" ELSE app_state
               /\ loop_owner' = OwnerAfter(t, pc)
        /\ UNCHANGED <<srv_vars, index, ingested_files, chat_history, hist_vars, ck_vars, db_vars>>

\* ingest_documents, lines 46-51, and the return to the caller
IngAdd ==
    \E t \in Coroutines :
        /\ Runnable(t) /\ task[t].pc = "ing_add"
        /\ index' = IF task[t].documents = <<>> THEN index
                    ELSE [none |-> FALSE, vectors |-> index.vectors \o task[t].embeddings]
        /\ LET pc == IF t = "startup" THEN "done" ELSE "send_mark"
           IN  /\ task' = [task EXCEPT ![t] =
                              IF t = "startup" THEN Finished
                              ELSE [@ EXCEPT !.pc = pc, !.documents = <<>>, !.k = 0,
                                             !.embeddings = <<>>]]
               /\ app_state' = IF t = "startup" THEN "running" ELSE app_state
               /\ loop_owner' = OwnerAfter(t, pc)
        /\ UNCHANGED <<srv_vars, doc_chunks, ingested_files, chat_history, hist_vars, ck_vars, db_vars>>

\* send_message, line 59
SendMark ==
    \E t \in SendRequests :
        /\ Runnable(t) /\ task[t].pc = "send_mark"
        /\ ingested_files' = task[t].current
        /\ task' = [task EXCEPT ![t].pc = "retrieve", ![t].current = {}]
        /\ loop_owner' = OwnerAfter(t, "retrieve")
        /\ UNCHANGED <<srv_vars, mcp_vars, app_state, chat_history, hist_vars, ck_vars, db_vars>>

\* retrieve_with_scores, lines 55-61: the guard, the query's embedding and
\* the search of the index
RetrSearch ==
    \E t \in SendRequests, embed_ok \in BOOLEAN :
        /\ Runnable(t) /\ task[t].pc = "retrieve"
        /\ \E hits \in (IF Searches(index, doc_chunks, embed_ok) THEN Hits(index, TopK) ELSE {<<>>}) :
             LET pc == IF index.none \/ Len(doc_chunks) = 0 THEN "answer"
                       ELSE IF embed_ok THEN "retr_map" ELSE "done"
             IN  /\ task' = [task EXCEPT ![t] =
                                IF pc = "done" THEN Finished
                                ELSE [@ EXCEPT !.pc = pc, !.hits = hits,
                                               !.mode = IF pc = "answer" THEN "UNGROUNDED" ELSE "none"]]
                 /\ loop_owner' = OwnerAfter(t, pc)
        /\ UNCHANGED <<srv_vars, mcp_vars, app_vars, hist_vars, ck_vars, db_vars>>

\* retrieve_with_scores, lines 63-66: the positions found are mapped to the
\* texts of doc_chunks; then the branch of query, lines 89-101
RetrMap ==
    \E t \in SendRequests :
        /\ Runnable(t) /\ task[t].pc = "retr_map"
        /\ LET r == retrieve_with_scores(index, doc_chunks, task[t].hits, TopK, TRUE)
               mode == Branch(r.results, r.scores, StrongThreshold, WeakThreshold)
               pc == IF r.raised # "no" \/ mode = "index_error" THEN "done" ELSE "answer"
           IN  /\ task' = [task EXCEPT ![t] =
                              IF pc = "done" THEN Finished
                              ELSE [@ EXCEPT !.pc = pc, !.hits = <<>>, !.mode = mode]]
               /\ loop_owner' = OwnerAfter(t, pc)
        /\ UNCHANGED <<srv_vars, mcp_vars, app_vars, hist_vars, ck_vars, db_vars>>

\* query, lines 103-109, and send_message, line 65
SendAnswer ==
    \E t \in SendRequests, user_input \in Questions, gen_ok \in BOOLEAN, answer \in Answers :
        /\ Runnable(t) /\ task[t].pc = "answer"
        /\ chat_history' = IF gen_ok THEN Append(chat_history, [user |-> user_input, bot |-> answer])
                           ELSE chat_history
        /\ task' = [task EXCEPT ![t] = Finished]
        /\ loop_owner' = OwnerAfter(t, "done")
        /\ UNCHANGED <<srv_vars, mcp_vars, app_state, ingested_files, hist_vars, ck_vars, db_vars>>

\* upload_file, lines 37-41, up to the await
UploadOpen ==
    \E t \in UploadRequests :
        /\ Runnable(t) /\ task[t].pc = "start"
        /\ task' = [task EXCEPT ![t].pc = "upload_write"]
        /\ loop_owner' = OwnerAfter(t, "upload_write")
        /\ UNCHANGED <<srv_vars, mcp_vars, app_vars, hist_vars, ck_vars, db_vars>>

\* upload_file, lines 41-44, from the await on
UploadIngest ==
    \E t \in UploadRequests, f \in UploadFiles, embed_ok \in BOOLEAN :
        /\ Runnable(t) /\ task[t].pc = "upload_write"
        /\ DoIngestFile(f, TRUE, embed_ok)
        /\ task' = [task EXCEPT ![t] = Finished]
        /\ loop_owner' = OwnerAfter(t, "done")
        /\ UNCHANGED <<mcp_vars, app_vars, ck_vars, db_vars>>

LoopNext ==
    \/ StartupList \/ SendList \/ IngClear \/ IngDoc \/ IngAdd \/ SendMark
    \/ RetrSearch \/ RetrMap \/ SendAnswer \/ UploadOpen \/ UploadIngest

(***************************************************************************)
(* files_db.json: save_files_db writes it piece by piece, the process may  *)
(* stop at any moment, and the next MCPServer() loads what is on disk.     *)
(***************************************************************************)
\* json.dump(ingested_files): the pieces of the document, in the order they
\* are written
Dump(files) ==
    <<[tok |-> "{"]>>
    \o Flatten([k \in DOMAIN files |-> <<[tok |-> "key", v |-> files[k].id],
                                           [tok |-> "value", v |-> files[k]]>>])
    \o <<[tok |-> "}"]>>

\* whether json.load accepts text: an object, complete, of key/value pairs
WellFormed(text) ==
    /\ Len(text) >= 2
    /\ text[1].tok = "{" /\ text[Len(text)].tok = "}"
    /\ (Len(text) - 2) % 2 = 0
    /\ \A j \in 1..((Len(text) - 2) \div 2) :
           /\ text[2 * j].tok = "key" /\ text[2 * j + 1].tok = "value"
           /\ text[2 * j + 1].v.id = text[2 * j].v

\* json.load(text), text well formed
Parse(text) == [j \in 1..((Len(text) - 2) \div 2) |-> text[2 * j + 1].v]

\* MCPServer.load_files_db: {} when the file is missing or cannot be parsed
load_files_db(file) ==
    IF file.exists /\ WellFormed(file.text) THEN Parse(file.text) ELSE <<>>

\* the files ingested by the server whose files_db.json is followed
DbFiles == {File("x.txt", BytesABA, TRUE), File("x.txt", BytesAB, TRUE), File("y.bin", BytesAB, TRUE)}

\* a server that is not inside save_files_db
DbRunning == [pc |-> "idle", old |-> <<>>, new |-> <<>>]

\* ingest_file, lines 85-133, and the call of save_files_db on line 134
DbIngest ==
    /\ db.pc = "idle"
    /\ \E f \in DbFiles, exists \in BOOLEAN, embed_ok \in BOOLEAN :
         LET r == ingest_file(f, exists, embed_ok)
             saves == r.result.kind = "success"
         IN  /\ srv_ingested_files' = r.files
             /\ vector_index' = r.vi
             /\ chunk_metadata' = r.meta
             /\ last' = [op |-> "ingest_file", file |-> f, exists |-> exists, result |-> r.result]
             /\ db' = IF saves THEN [pc |-> "open", old |-> srv_ingested_files, new |-> r.files]
                      ELSE db
    /\ UNCHANGED <<files_db, mcp_vars, app_vars, ingest_log, ck_vars, ev_vars>>

\* save_files_db, line 55: open(files_db, 'w') empties the file; when it
\* raises, the error is logged and the file stays as it was
DbOpen ==
    /\ db.pc = "open"
    /\ \E open_ok \in BOOLEAN :
         /\ files_db' = IF open_ok THEN [exists |-> TRUE, text |-> <<>>] ELSE files_db
         /\ db' = IF open_ok THEN [db EXCEPT !.pc = "dump"] ELSE DbRunning
    /\ UNCHANGED <<srv_vars, mcp_vars, app_vars, hist_vars, ck_vars, ev_vars>>

\* save_files_db, line 56: json.dump writes the next piece
DbWrite ==
    /\ db.pc = "dump"
    /\ Len(files_db.text) < Len(Dump(srv_ingested_files))
    /\ files_db' = [files_db EXCEPT !.text = Append(@, Dump(srv_ingested_files)[Len(@) + 1])]
    /\ UNCHANGED <<db, srv_vars, mcp_vars, app_vars, hist_vars, ck_vars, ev_vars>>

\* save_files_db: the end of the with block, and the return of ingest_file
DbClose ==
    /\ db.pc = "dump"
    /\ Len(files_db.text) = Len(Dump(srv_ingested_files))
    /\ db' = DbRunning
    /\ UNCHANGED <<files_db, srv_vars, mcp_vars, app_vars, hist_vars, ck_vars, ev_vars>>

\* the process stops: what it held in memory is gone, the file stays
DbStop ==
    /\ db.pc \in {"idle", "open", "dump"}
    /\ db' = [db EXCEPT !.pc = "stopped"]
    /\ last' = [op |-> "stop", during_save |-> db.pc \in {"open", "dump"}]
    /\ srv_ingested_files' = <<>>
    /\ vector_index' = [index_none |-> TRUE, vectors |-> <<>>, text_chunks |-> <<>>]
    /\ chunk_metadata' = [exists |-> FALSE, items |-> <<>>]
    /\ UNCHANGED <<files_db, mcp_vars, app_vars, ingest_log, ck_vars, ev_vars>>

\* MCPServer.__init__ of the next process, lines 19-25
DbLoad ==
    /\ db.pc = "stopped"
    /\ srv_ingested_files' = load_files_db(files_db)
    /\ last' = [op |-> "load", during_save |-> last.during_save, old |-> db.old, new |-> db.new]
    /\ db' = DbRunning
    /\ UNCHANGED <<files_db, vector_index, chunk_metadata, mcp_vars, app_vars, ingest_log,
                   ck_vars, ev_vars>>

DbNext == DbIngest \/ DbOpen \/ DbWrite \/ DbClose \/ DbStop \/ DbLoad

(***************************************************************************)
(* Initial states and specifications.                                      *)
(***************************************************************************)
\* what load_files_db may find: nothing, or the record an earlier run stored
PersistedFile == File("x.txt", BytesABA, TRUE)
PersistedStores ==
    {<<>>, <<FileInfo(PersistedFile, get_file_hash(PersistedFile), ExtractContent(PersistedFile))>>}

ServerInit ==
    /\ srv_ingested_files \in PersistedStores
    /\ vector_index = [index_none |-> TRUE, vectors |-> <<>>, text_chunks |-> <<>>]
    /\ chunk_metadata = [exists |-> FALSE, items |-> <<>>]

WrapperInit ==
    /\ index = [none |-> TRUE, vectors |-> <<>>]
    /\ doc_chunks = <<>>

AppInit ==
    /\ app_state = "starting"
    /\ ingested_files = {}
    /\ chat_history = <<>>

HistInit ==
    /\ last = NoOp
    /\ ingest_log = {}

ChunkIdle ==
    /\ ck_pc = "idle" /\ ck_text = <<>> /\ ck_size = 1 /\ ck_overlap = 0
    /\ ck_words = <<>> /\ ck_i = 0 /\ ck_chunks = <<>>

\* no coroutine: the handlers are taken as single steps
LoopIdle ==
    /\ loop_owner = "none"
    /\ task = <<>>

\* files_db.json is not followed
DbIdle ==
    /\ files_db = [exists |-> FALSE, text |-> <<>>]
    /\ db = DbRunning

\* the web application
Init == ServerInit /\ WrapperInit /\ AppInit /\ HistInit /\ ChunkIdle /\ LoopIdle /\ DbIdle
Next == Startup \/ Upload \/ Send
Spec == Init /\ [][Next]_vars

\* an MCPServer on its own, ingest_file called on any file
ServerNext == IngestFile
ServerSpec == Init /\ [][ServerNext]_vars

\* an MCPServer on its own, with its read operations
StoreNext == StoreIngestFile \/ GetFile \/ ListFiles \/ SearchFiles
StoreSpec == Init /\ [][StoreNext]_vars

\* an MCPWrapperOllama on its own, ingest_documents and query called directly
WrapperNext == IngestDocuments \/ Query
WrapperSpec == Init /\ [][WrapperNext]_vars

\* one call of MCPServer.chunk_text
ChunkInit ==
    /\ srv_ingested_files = <<>>
    /\ vector_index = [index_none |-> TRUE, vectors |-> <<>>, text_chunks |-> <<>>]
    /\ chunk_metadata = [exists |-> FALSE, items |-> <<>>]
    /\ WrapperInit /\ AppInit /\ HistInit /\ LoopIdle /\ DbIdle
    /\ ck_pc = "call"
    /\ ck_text \in Texts
    /\ ck_size \in 1..MaxSize
    /\ ck_overlap \in 0..MaxSize
    /\ ck_words = <<>> /\ ck_i = 0 /\ ck_chunks = <<>>

\* a call that has started runs on: the interpreter does not stop mid-loop
ChunkSpec == ChunkInit /\ [][ChunkNext]_vars /\ WF_vars(ChunkNext)

\* the web application, its handlers as coroutines of the event loop
LoopInit ==
    /\ ServerInit /\ WrapperInit /\ AppInit /\ HistInit /\ ChunkIdle /\ DbIdle
    /\ loop_owner = "none"
    /\ task = [t \in Coroutines |-> Fresh]
LoopSpec == LoopInit /\ [][LoopNext]_vars

\* an MCPServer and its files_db.json, across stops and restarts of the
\* process; the file holds what the last complete save wrote
DbInit ==
    /\ ServerInit /\ WrapperInit /\ AppInit /\ HistInit /\ ChunkIdle /\ LoopIdle
    /\ files_db = IF srv_ingested_files = <<>> THEN [exists |-> FALSE, text |-> <<>>]
                  ELSE [exists |-> TRUE, text |-> Dump(srv_ingested_files)]
    /\ db = DbRunning
DbSpec == DbInit /\ [][DbNext]_vars

(***************************************************************************)
(* The claims.                                                             *)
(***************************************************************************)
\* the chunks MCPWrapperOllama makes of the files ids, in that order
ChunksOfIds(ids) == Flatten([k \in DOMAIN ids |-> mcp_chunk_text(get_file(ids[k]).content, WrapperChunkSize)])

RECURSIVE SumChunkCounts(_)
SumChunkCounts(ids) ==
    IF ids = <<>> THEN 0
    ELSE Len(mcp_chunk_text(get_file(Head(ids)).content, WrapperChunkSize)) + SumChunkCounts(Tail(ids))

\* the ids of the known-id set, in the order the store lists them
KnownIds == SelectSeq(list_files, LAMBDA id : id \in ingested_files)

\* C1: the number of vectors in the retrieval index equals len(doc_chunks)
\* and the i-th vector is the embedding of doc_chunks[i], in every state,
\* calls of ingest_documents that abort part-way included.
C1_IndexAlignedWithChunks ==
    /\ Len(index.vectors) = Len(doc_chunks)
    /\ \A i \in DOMAIN doc_chunks : index.vectors[i] = Embed(doc_chunks[i])

\* C2: after the sync step of a /send request has completed successfully,
\* the retrieval index holds as many entries as the files of the known-id
\* set have chunks, and they are the embeddings of those chunks in the order
\* the chunks were emitted.
C2_SyncedIndexMatchesKnownFiles ==
    (last.op = "send" /\ ~last.sync.raised) =>
        /\ Len(index.vectors) = SumChunkCounts(KnownIds)
        /\ index.vectors = Encode(ChunksOfIds(KnownIds))

\* a successful sync of two new files at once, after an earlier sync failed
C2_Witness ==
    /\ last.op = "send" /\ last.sync.ran /\ ~last.sync.raised
    /\ Len(last.sync.new_ids) >= 2
    /\ Len(index.vectors) >= 2
    /\ Len(doc_chunks) > Len(index.vectors)

\* C3: ingest_file on a file whose bytes were ingested successfully before
\* returns already_exists with the original file id and leaves
\* ingested_files, the vector index, text_chunks and chunk_metadata as they were.
C3_SecondIngestAlreadyExists ==
    [][(/\ last'.op = "ingest_file"
        /\ last'.exists
        /\ \E e \in ingest_log : e.kind = "success" /\ e.bytes = last'.file.bytes)
       => (/\ last'.result.kind = "already_exists"
           /\ \A e \in ingest_log :
                  (e.kind = "success" /\ e.bytes = last'.file.bytes) => last'.result.file_id = e.file_id
           /\ UNCHANGED srv_vars)]_vars

\* the mode the claim gives a query whose search returned hits
ModeByBestScore(hits, strong, weak) ==
    IF hits = <<>> THEN "UNGROUNDED"
    ELSE IF hits[1].score >= strong THEN "STRICT_GROUNDED"
    ELSE IF hits[1].score >= weak THEN "HYBRID_GROUNDED"
    ELSE "UNGROUNDED"

\* C4: a query whose question was embedded (or needed no embedding) chooses
\* exactly one mode, the one the best retrieved score gives against the two
\* thresholds, UNGROUNDED when nothing is retrieved, and builds that mode's prompt.
C4_ModeByBestScore ==
    (last.op = "query" /\ last.q.raised # "embedding") =>
        /\ last.q.raised # "index_error"
        /\ last.q.mode = ModeByBestScore(last.q.hits, last.strong, last.weak)
        /\ last.q.prompt =
             (CASE last.q.mode = "STRICT_GROUNDED" -> build_prompt(last.question, last.q.results)
                [] last.q.mode = "HYBRID_GROUNDED" -> HybridPrompt(last.question, last.q.results)
                [] OTHER -> UngroundedPrompt(last.question))

\* C5: when the embedding of one document fails during a sync over several
\* new documents, the other new documents are still chunked, embedded and
\* appended to the index.
C5_OnlyFailingDocumentAborted ==
    (last.op = "send" /\ last.sync.raised /\ Len(last.sync.new_ids) >= 2) =>
        LET known == SelectSeq(list_files, LAMBDA id : id \in last.sync.known_before)
            failed == last.sync.new_ids[last.sync.fail_at]
            others == SelectSeq(last.sync.new_ids, LAMBDA id : id # failed)
        IN  index.vectors = Encode(ChunksOfIds(known)) \o Encode(ChunksOfIds(others))

\* C6: the sync of a /send request chunks and embeds no file whose id is in
\* the known-id set; when the store holds no id outside that set it embeds
\* nothing and leaves the index, doc_chunks and the known-id set unchanged.
C6_KnownFilesNeverReembedded ==
    [][(last'.op = "send") =>
          /\ Range(last'.sync.chunked) \cap ingested_files = {}
          /\ (Range(list_files) \subseteq ingested_files) =>
                 /\ last'.sync.chunked = <<>>
                 /\ UNCHANGED <<index, doc_chunks, ingested_files>>]_vars

\* a /send that finds nothing new, after an incremental sync has added a file
C6_Witness ==
    /\ last.op = "send" /\ ~last.sync.ran
    /\ Cardinality(ingested_files) >= 2
    /\ Len(index.vectors) >= 2

\* C7: a /send whose query fails in the embedding call or in the generation
\* call returns no answer text and appends no turn to chat_history; after a
\* failed embedding call no prompt is sent to the generation gateway.
C7_FailedQueryAddsNoTurn ==
    [][(last'.op = "send" /\ last'.q.raised \in {"embedding", "generation"}) =>
          /\ chat_history' = chat_history
          /\ last'.q.response = <<>>
          /\ (last'.q.raised = "embedding" => ~last'.q.gen_called)]_vars

\* a /send that fails in the generation call after one that was answered
C7_Witness ==
    /\ last.op = "send" /\ last.q.raised = "generation"
    /\ Len(chat_history) = 1

\* C8: chunk_text ends for every text and every (chunk_size, overlap), also
\* when overlap equals or exceeds chunk_size.
C8_ChunkerTerminates == <>(ck_pc = "done")

\* the k-th window the claim describes: tokens [k*s, min(k*s + w, n)), 0-based k
Window(words, k, w, s) == SubSeq(words, k * s + 1, Min(k * s + w, Len(words)))

\* C9: with stride s = chunk_size - overlap >= 1, chunk_text returns
\* ceil(n / s) chunks, the k-th the tokens [k*s, min(k*s + chunk_size, n))
\* joined by single blanks; every token is in a chunk, in order; only
\* trailing windows are shorter than chunk_size; no tokens, no chunks.  The
\* wrapper's chunk_text is the case overlap = 0.
C9_ChunksAreTheWindows ==
    (ck_pc = "done" /\ ck_size - ck_overlap >= 1) =>
        LET words == Split(ck_text)
            n == Len(words)
            s == ck_size - ck_overlap
            count == (n + s - 1) \div s
            wrapped == mcp_chunk_text(ck_text, ck_size)
        IN  /\ Len(ck_chunks) = count
            /\ \A k \in 1..count :
                   /\ ck_chunks[k] = Join(Window(words, k - 1, ck_size, s))
                   /\ Split(ck_chunks[k]) = Window(words, k - 1, ck_size, s)
                   /\ Len(Split(ck_chunks[k])) < ck_size => (k - 1) * s + ck_size > n
            /\ \A j \in 1..n : \E k \in 1..count :
                   /\ (k - 1) * s < j /\ j <= (k - 1) * s + ck_size
                   /\ Split(ck_chunks[k])[j - (k - 1) * s] = words[j]
            /\ (n = 0 => ck_chunks = <<>>)
            /\ Len(wrapped) = (n + ck_size - 1) \div ck_size
            /\ \A k \in DOMAIN wrapped : wrapped[k] = Join(Window(words, k - 1, ck_size, ck_size))

\* five tokens, chunk_size 2, overlap 0: three chunks, the last of one token
C9_Witness ==
    /\ ck_pc = "done" /\ ck_size = 2 /\ ck_overlap = 0
    /\ Len(ck_words) = 5 /\ Len(ck_chunks) = 3
    /\ ck_chunks[3] = ck_words[5]

\* C10: two files passed to ingest_file receive the same file id if and only
\* if their bytes are identical, so a file whose bytes differ from those of
\* every file ingested before is never answered already_exists.
C10_SameIdIffSameBytes ==
    /\ \A e1, e2 \in ingest_log : (e1.file_id = e2.file_id) <=> (e1.bytes = e2.bytes)
    /\ (last.op = "ingest_file" /\ last.result.kind = "already_exists") =>
           \E e \in ingest_log : e.kind = "success" /\ e.bytes = last.file.bytes


\* coroutine t is between the first and the last statement of a call of
\* ingest_documents
WithinIngest(t) == task[t].pc \in {"ing_clear", "ing_doc", "ing_add"}

\* coroutine t has searched the index and has not yet mapped the positions
\* found to the texts of doc_chunks
WithinRetrieval(t) == task[t].pc = "retr_map"

\* C11: under every interleaving of the startup refresh and of concurrent
\* /send and /upload requests, no two calls of ingest_documents overlap and
\* no retrieval is under way while a call of ingest_documents is.
C11_MutationsSerialized ==
    \A t1, t2 \in Coroutines :
        t1 # t2 => /\ ~(WithinIngest(t1) /\ WithinIngest(t2))
                   /\ ~(WithinRetrieval(t1) /\ WithinIngest(t2))

\* a /send inside ingest_documents while another /send waits for the loop
\* and an /upload is suspended at its await
C11_Witness ==
    /\ task["send1"].pc = "ing_doc"
    /\ task["send2"].pc = "start"
    /\ task["upload2"].pc = "upload_write"

\* content that is the binary placeholder or an error marker
IsMarker(content) ==
    \/ StartsWith(content, <<"[", "Binary", " ", "file">>)
    \/ StartsWith(content, <<"[", "Error">>)

\* the vectors of the chunks each index would make of content
MarkerVectors(content) ==
    {Embed(c) : c \in Range(mcp_chunk_text(content, WrapperChunkSize))}
    \cup {Embed(c.text) : c \in Range(chunk_text(content, DefaultChunkSize, DefaultOverlap,
                                                  [file_id |-> <<>>, file_name |-> "", file_type |-> ""]))}

\* C12: no chunk of a record whose content is the binary placeholder or an
\* error marker is in a similarity index, neither in the content store's
\* vector index nor in the retrieval index.
C12_MarkersNeverIndexed ==
    \A k \in DOMAIN srv_ingested_files :
        IsMarker(srv_ingested_files[k].content) =>
            /\ Range(index.vectors) \cap MarkerVectors(srv_ingested_files[k].content) = {}
            /\ Range(vector_index.vectors) \cap MarkerVectors(srv_ingested_files[k].content) = {}

\* C13: every call of ingest_file returns one of success, already_exists,
\* not-found and error, and a call that returns not-found or error leaves
\* ingested_files, the vector index and chunk_metadata as they were.
C13_IngestFileAlwaysReturns ==
    [][(last'.op = "ingest_file") =>
          /\ last'.result.kind \in {"success", "already_exists", "not_found", "error"}
          /\ (last'.result.kind \in {"not_found", "error"}) => UNCHANGED srv_vars]_vars

\* a call that failed in the embedding of its chunks, on a store that holds
\* records and an index that holds vectors
C13_Witness ==
    /\ last.op = "ingest_file" /\ last.result.kind = "error"
    /\ Len(srv_ingested_files) >= 2
    /\ Len(vector_index.vectors) >= 2

\* C14: when the process stops during save_files_db, the next load_files_db
\* yields the complete map as it was before the ingest or the complete map
\* with the new record, never an empty or partial one.
C14_SaveIsAtomic ==
    (last.op = "load" /\ last.during_save) => srv_ingested_files \in {last.old, last.new}

\* C15: across ingest_file, get_file, list_files and search_files the set of
\* stored ids only grows and the record stored under an id never changes.
C15_StoreAppendOnly ==
    [][\A k \in DOMAIN srv_ingested_files :
           \E j \in DOMAIN srv_ingested_files' :
               /\ srv_ingested_files'[j].id = srv_ingested_files[k].id
               /\ srv_ingested_files'[j] = srv_ingested_files[k]]_vars

\* a file ingested under a second name after its bytes were stored, the
\* store holding two records, and a read operation after it
C15_Witness ==
    /\ Len(srv_ingested_files) >= 2
    /\ \E e \in ingest_log : e.kind = "already_exists"
    /\ last.op \in {"get_file", "list_files", "search_files"}

\* the lineage of the chunk stored at position pos of the content store's index
LineageAt(pos) ==
    <<chunk_metadata.items[pos + 1].file_id, chunk_metadata.items[pos + 1].file_name,
      chunk_metadata.items[pos + 1].file_type>>

\* C19: a call of search_files whose query was embedded returns, for every
\* vector the search matched, a result with the lineage of the file that
\* vector's chunk came from, and returns an empty list, without raising,
\* when nothing has been indexed.
C19_SearchCarriesLineage ==
    (last.op = "search_files" /\ last.raised # "embedding") =>
        /\ last.raised = "no"
        /\ Len(last.results) = Len(last.hits)
        /\ \A j \in DOMAIN last.results : last.results[j].lineage = LineageAt(last.hits[j].pos)

\* C16: no query searches the index and maps the positions found to the
\* texts of doc_chunks while len(doc_chunks) differs from the number of
\* index entries: a refresh has brought the two together before.
C16_NoQueryOnDesync ==
    (last.op = "send" /\ last.q.embed_called /\ last.q.raised # "embedding") =>
        Len(doc_chunks) = Len(index.vectors)

\* C17: after a call ingest_documents(documents, refresh=True) that returned,
\* doc_chunks is the concatenation, in document order, of chunk_text(d) for
\* the documents d, and the index holds the vectors of exactly those chunks,
\* whatever the state was before; with no document both are empty.
C17_RefreshRebuildsAll ==
    (last.op = "ingest_documents" /\ last.refresh /\ ~last.raised) =>
        /\ doc_chunks = Flatten([k \in DOMAIN last.documents |->
                                    mcp_chunk_text(last.documents[k], WrapperChunkSize)])
        /\ index.vectors = Encode(doc_chunks)

\* a refresh with two documents of different chunk counts
C17_Witness ==
    /\ last.op = "ingest_documents" /\ last.refresh /\ ~last.raised
    /\ Len(last.documents) = 2
    /\ Len(doc_chunks) = 3

\* C18: the two lists retrieve_with_scores returns have the same length, at
\* most min(top_k, number of indexed vectors), and scores[j] is the score of
\* the vector whose chunk text is results[j], in the order of the search,
\* also when the index holds fewer than top_k vectors and whatever the scores.
C18_ResultsPairedWithScores ==
    (last.op = "query" /\ last.q.embed_called /\ last.q.raised # "embedding") =>
        /\ Len(last.q.results) = Len(last.q.scores)
        /\ Len(last.q.results) <= Min(TopK, Len(index.vectors))
        /\ \A j \in DOMAIN last.q.results :
               /\ last.q.scores[j] = last.q.hits[j].score
               /\ last.q.results[j] = doc_chunks[last.q.hits[j].pos + 1]

=============================================================================
